---- MODULE Spec2Model ----
(***************************************************************************)
(* Model of the Chrome Trace Event importer                                *)
(* (static/app/utils/profiling/profile/chromeTraceProfile.tsx).            *)
(*                                                                         *)
(* The import is modelled as a state machine: the partition of the input   *)
(* (splitEventsByProcessAndTraceId), then, bucket by bucket in the order   *)
(* of the for-in loops of parseChromeTraceArrayFormat, the set-up of       *)
(* buildProfile, one step per pass of its merge loop, one step per pass of *)
(* its closing loop, profile.build(), and at last the return of the        *)
(* ProfileGroup.  A thrown Error ends the import in pc = "failed".         *)
(*                                                                         *)
(* An optional field (pid, tid, dur, tdur) is the empty sequence when it   *)
(* is not a number and the one-element sequence <<n>> when it is n.        *)
(* args is a sequence of <<field, type, value>> triples in insertion order.*)
(***************************************************************************)
EXTENDS Integers, Sequences, FiniteSets, TLC

VARIABLES
    input,           \* the trace handed to parseChromeTraceArrayFormat
    pc,              \* position: "split", "bucket", "loop", "returned", "failed"
    collections,     \* result of splitEventsByProcessAndTraceId
    order,           \* the (pid, tid) pairs in the order the for-in loops visit them
    bi,              \* index in order of the bucket being built
    profileName,     \* name given to the EventedProfile of the current bucket
    beginQueue,      \* buildProfile: beginQueue
    endQueue,        \* buildProfile: endQueue
    firstTimestamp,  \* buildProfile: firstTimestamp
    stack,           \* buildProfile: stack
    frameCache,      \* buildProfile: frameCache, a sequence of [key, name] in insertion order
    calls,           \* calls made on the EventedProfile of the current bucket
    dequeued,        \* events shifted from beginQueue / endQueue in the current build
    profiles,        \* parseChromeTraceArrayFormat: profiles
    result,          \* the returned ProfileGroup, <<>> while none is returned
    error,           \* message kind of the thrown Error, "none" while none is thrown
    pending,         \* traces of the calls of parseChromeTraceArrayFormat still to come
    outcomes         \* outcomes of the calls of parseChromeTraceArrayFormat that ended

vars == << pending, outcomes, input, pc, collections, order, bi, profileName, beginQueue, endQueue,
           firstTimestamp, stack, frameCache, calls, dequeued, profiles, result, error >>

(***************************************************************************)
(* Bounds of the model                                                     *)
(***************************************************************************)
MaxLen == 4         \* longest single-bucket trace of Spec
MaxImportLen == 3   \* longest multi-bucket trace of SpecImport and SpecRoutable
MaxNormLen == 3     \* longest trace of SpecComplete
MaxFramesLen == 4   \* longest trace of SpecFrames

(***************************************************************************)
(* Values                                                                  *)
(***************************************************************************)
None == << >>
Num(n) == << n >>
IsNumber(x) == x # None

Last(s) == s[Len(s)]
Front(s) == SubSeq(s, 1, Len(s) - 1)
Range(s) == { s[i] : i \in 1..Len(s) }

ArgsF == << <<"frame", "string", "f">> >>
ArgsG == << <<"frame", "string", "g">> >>
ArgsMain == << <<"name", "string", "Main">> >>

Ev(pid, tid, ph, ts, name, args, dur, tdur) ==
    [pid |-> pid, tid |-> tid, ph |-> ph, ts |-> ts, name |-> name,
     args |-> args, dur |-> dur, tdur |-> tdur]

\* JSON.stringify(event.args): the fields in insertion order, each with its
\* value; a string value is quoted, so its type is part of the text.
JSONStringify(args) ==
    [i \in 1..(3 * Len(args)) |-> args[(i + 2) \div 3][((i - 1) % 3) + 1]]

\* event.args.name when it is a string, None otherwise
RECURSIVE StringArg(_, _)
StringArg(args, field) ==
    IF args = << >> THEN None
    ELSE IF Head(args)[1] = field
         THEN (IF Head(args)[2] = "string" THEN << Head(args)[3] >> ELSE None)
         ELSE StringArg(Tail(args), field)

createFrameInfoFromEvent(event) ==
    LET key == JSONStringify(event.args)
    IN  [key |-> key,
         name |-> << (IF event.name # "" THEN event.name ELSE "Unknown"), key >>]

\* the string a for-in loop yields for the numeric property key n
KeyString(n) == << "str", n >>

(***************************************************************************)
(* splitEventsByProcessAndTraceId                                          *)
(* collections is the nested object: a sequence, in insertion order, of    *)
(* [pid, threads], threads a sequence, in insertion order, of [tid, events]*)
(***************************************************************************)
IndexOf(s, P(_)) ==
    LET hits == { i \in 1..Len(s) : P(s[i]) }
    IN  IF hits = {} THEN 0 ELSE CHOOSE i \in hits : \A j \in hits : i <= j

\* PushEvent with every event of a process put in one bucket (thread ignored)
PushEventByPid(coll, event) ==
    LET p == event.pid[1]
        t == 0
        HasPid(c) == c.pid = p
        HasTid(c) == c.tid = t
        coll1 == IF IndexOf(coll, HasPid) = 0
                 THEN Append(coll, [pid |-> p, threads |-> << >>])
                 ELSE coll
        pi == IndexOf(coll1, HasPid)
        th == coll1[pi].threads
        th1 == IF IndexOf(th, HasTid) = 0
               THEN Append(th, [tid |-> t, events |-> << >>])
               ELSE th
        ti == IndexOf(th1, HasTid)
        th2 == [th1 EXCEPT ![ti].events = Append(@, event)]
    IN  [coll1 EXCEPT ![pi].threads = th2]

\* PushEvent with the event put at the front of its bucket
PushEventFront(coll, event) ==
    LET p == event.pid[1]
        t == event.tid[1]
        HasPid(c) == c.pid = p
        HasTid(c) == c.tid = t
        coll1 == IF IndexOf(coll, HasPid) = 0
                 THEN Append(coll, [pid |-> p, threads |-> << >>])
                 ELSE coll
        pi == IndexOf(coll1, HasPid)
        th == coll1[pi].threads
        th1 == IF IndexOf(th, HasTid) = 0
               THEN Append(th, [tid |-> t, events |-> << >>])
               ELSE th
        ti == IndexOf(th1, HasTid)
        th2 == [th1 EXCEPT ![ti].events = << event >> \o @]
    IN  [coll1 EXCEPT ![pi].threads = th2]

PushEvent(coll, event) ==
    LET p == event.pid[1]
        t == event.tid[1]
        HasPid(c) == c.pid = p
        HasTid(c) == c.tid = t
        coll1 == IF IndexOf(coll, HasPid) = 0
                 THEN Append(coll, [pid |-> p, threads |-> << >>])
                 ELSE coll
        pi == IndexOf(coll1, HasPid)
        th == coll1[pi].threads
        th1 == IF IndexOf(th, HasTid) = 0
               THEN Append(th, [tid |-> t, events |-> << >>])
               ELSE th
        ti == IndexOf(th1, HasTid)
        th2 == [th1 EXCEPT ![ti].events = Append(@, event)]
    IN  [coll1 EXCEPT ![pi].threads = th2]

\* SplitFrom with the loop left at the first event without numeric pid or tid
RECURSIVE SplitFromBreak(_, _)
SplitFromBreak(coll, trace) ==
    IF trace = << >> THEN coll
    ELSE IF ~IsNumber(Head(trace).pid) THEN coll
    ELSE IF ~IsNumber(Head(trace).tid) THEN coll
    ELSE SplitFromBreak(PushEvent(coll, Head(trace)), Tail(trace))

RECURSIVE SplitFrom(_, _)
SplitFrom(coll, trace) ==
    IF trace = << >> THEN coll
    ELSE IF ~IsNumber(Head(trace).pid) THEN SplitFrom(coll, Tail(trace))
    ELSE IF ~IsNumber(Head(trace).tid) THEN SplitFrom(coll, Tail(trace))
    ELSE SplitFrom(PushEvent(coll, Head(trace)), Tail(trace))

splitEventsByProcessAndTraceId(trace) == SplitFrom(<< >>, trace)

(***************************************************************************)
(* for (const k in object): the own keys that are array indices (the       *)
(* non-negative integers) in ascending numeric order, then the other keys  *)
(* in insertion order.                                                     *)
(***************************************************************************)
RECURSIVE Ascending(_)
Ascending(S) ==
    IF S = {} THEN << >>
    ELSE LET m == CHOOSE x \in S : \A y \in S : x <= y
         IN  << m >> \o Ascending(S \ {m})

ForInKeys(keys) ==
    LET IsIndex(k) == k >= 0
        NotIndex(k) == k < 0
    IN  Ascending({ k \in Range(keys) : IsIndex(k) }) \o SelectSeq(keys, NotIndex)

RECURSIVE Concat(_)
Concat(ss) == IF ss = << >> THEN << >> ELSE Head(ss) \o Concat(Tail(ss))

ThreadsOf(coll, p) ==
    LET HasPid(c) == c.pid = p
    IN  coll[IndexOf(coll, HasPid)].threads

EventsOf(coll, p, t) ==
    LET HasTid(c) == c.tid = t
        th == ThreadsOf(coll, p)
    IN  th[IndexOf(th, HasTid)].events

\* the (processId, threadId) pairs in the order of the two nested for-in loops
ForInBuckets(coll) ==
    LET pids == ForInKeys([i \in 1..Len(coll) |-> coll[i].pid])
        TidsOf(p) == LET th == ThreadsOf(coll, p)
                     IN  ForInKeys([i \in 1..Len(th) |-> th[i].tid])
        Pairs(p) == LET ts == TidsOf(p) IN [i \in 1..Len(ts) |-> << p, ts[i] >>]
    IN  Concat([i \in 1..Len(pids) |-> Pairs(pids[i])])

(***************************************************************************)
(* chronologicalSort and Array.prototype.sort (stable)                     *)
(***************************************************************************)
\* chronologicalSort that never orders two events
chronologicalSortNone(a, b) == 0

chronologicalSort(a, b) ==
    IF a.ts < b.ts THEN -1
    ELSE IF a.ts > b.ts THEN 1
    ELSE 0

\* x is placed before the first element that compares greater than x
InsertSorted(s, x) ==
    LET Greater(y) == chronologicalSort(y, x) > 0
        i == IndexOf(s, Greater)
    IN  IF i = 0 THEN Append(s, x)
        ELSE SubSeq(s, 1, i - 1) \o << x >> \o SubSeq(s, i, Len(s))

RECURSIVE SortFrom(_, _)
SortFrom(acc, s) ==
    IF s = << >> THEN acc ELSE SortFrom(InsertSorted(acc, Head(s)), Tail(s))

Sort(s) == SortFrom(<< >>, s)

(***************************************************************************)
(* getNextQueue: "B", "E", or "throw" for 'Profile contains no events'     *)
(***************************************************************************)
\* getNextQueue with End selected on a timestamp tie
getNextQueueTieEnd(bq, eq) ==
    IF bq = << >> /\ eq = << >> THEN "throw"
    ELSE IF eq = << >> THEN "B"
    ELSE IF bq = << >> THEN "E"
    ELSE IF bq[1].ts < eq[1].ts THEN "B"
    ELSE "E"

getNextQueue(bq, eq) ==
    IF bq = << >> /\ eq = << >> THEN "throw"
    ELSE IF eq = << >> THEN "B"
    ELSE IF bq = << >> THEN "E"
    ELSE IF bq[1].ts < eq[1].ts THEN "B"
    ELSE IF eq[1].ts < bq[1].ts THEN "E"
    ELSE "B"

(***************************************************************************)
(* buildProfile, lines 112-162: labels and queues                          *)
(***************************************************************************)
IsTimeline(e) == e.ph \in {"B", "E", "X", "M"}

IsThreadName(e) ==
    e.ph = "M" /\ e.name = "thread_name" /\ StringArg(e.args, "name") # None

IsProcessName(e) ==
    e.ph = "M" /\ ~IsThreadName(e)
    /\ e.name = "process_name" /\ StringArg(e.args, "name") # None

\* ThreadName with the first match kept
ThreadNameFirst(events, threadId) ==
    LET ms == SelectSeq(SelectSeq(events, IsTimeline), IsThreadName)
    IN  IF ms = << >> THEN << "tid", threadId >>
        ELSE << StringArg(Head(ms).args, "name")[1], threadId >>

ThreadName(events, threadId) ==
    LET ms == SelectSeq(SelectSeq(events, IsTimeline), IsThreadName)
    IN  IF ms = << >> THEN << "tid", threadId >>
        ELSE << StringArg(Last(ms).args, "name")[1], threadId >>

ProcessName(events, processId) ==
    LET ms == SelectSeq(SelectSeq(events, IsTimeline), IsProcessName)
    IN  IF ms = << >> THEN << "pid", processId >>
        ELSE << StringArg(Last(ms).args, "name")[1], processId >>

\* HasDuration with tdur overlooked
HasDurationDurOnly(e) == e.ph = "X" /\ IsNumber(e.dur)

HasDuration(e) == e.ph = "X" /\ (IsNumber(e.dur) \/ IsNumber(e.tdur))

\* Duration with tdur taken before dur
DurationPreferTdur(e) ==
    IF IsNumber(e.tdur) THEN e.tdur[1]
    ELSE IF IsNumber(e.dur) THEN e.dur[1]
    ELSE 0

\* event.dur ?? event.tdur ?? 0
Duration(e) ==
    IF IsNumber(e.dur) THEN e.dur[1]
    ELSE IF IsNumber(e.tdur) THEN e.tdur[1]
    ELSE 0

OpensFrame(e) == e.ph = "B" \/ HasDuration(e)
ClosesFrame(e) == e.ph = "E" \/ HasDuration(e)

AsBegin(e) == [e EXCEPT !.ph = "B"]
AsEnd(e) == IF e.ph = "X" THEN [e EXCEPT !.ph = "E", !.ts = e.ts + Duration(e)] ELSE e

\* beginQueue and endQueue as pushed by the loop over timelineEvents
PendingBegin(events) ==
    LET s == SelectSeq(SelectSeq(events, IsTimeline), OpensFrame)
    IN  [i \in 1..Len(s) |-> AsBegin(s[i])]

PendingEnd(events) ==
    LET s == SelectSeq(SelectSeq(events, IsTimeline), ClosesFrame)
    IN  [i \in 1..Len(s) |-> AsEnd(s[i])]

(***************************************************************************)
(* The EventedProfile of a bucket is known by the calls made on it, in     *)
(* order: [op, key, at, by], by naming the place of the call ("B" and "E"  *)
(* for the branches of the merge loop, "tail" for the closing loop).       *)
(* Its bookkeeping of Frame.totalWeight is replayed from the calls: every  *)
(* call adds the time elapsed since the previous call to each open frame.  *)
(***************************************************************************)
Call(op, key, at, by) == [op |-> op, key |-> key, at |-> at, by |-> by]

RECURSIVE OpenFrames(_)
OpenFrames(log) ==
    IF log = << >> THEN << >>
    ELSE LET pre == OpenFrames(Front(log))
             c == Last(log)
         IN  IF c.op = "enterFrame" THEN Append(pre, c.key)
             ELSE IF c.op = "leaveFrame" /\ pre # << >> THEN Front(pre)
             ELSE pre

LastValue(log) == IF log = << >> THEN 0 ELSE Last(log).at

RECURSIVE TotalWeight(_, _)
TotalWeight(key, log) ==
    IF log = << >> THEN 0
    ELSE LET pre == Front(log)
             c == Last(log)
             open == OpenFrames(pre)
             n == Cardinality({ i \in 1..Len(open) : open[i] = key })
         IN  TotalWeight(key, pre)
               + (IF c.op = "build" THEN 0 ELSE n * (c.at - LastValue(pre)))

(***************************************************************************)
(* frameCache                                                              *)
(***************************************************************************)
CacheHas(cache, key) == \E i \in 1..Len(cache) : cache[i].key = key

\* CacheSet without the test of frameCache.has: the Frame of a key is replaced
CacheSetAlways(cache, frameInfo) ==
    IF CacheHas(cache, frameInfo.key)
    THEN [i \in 1..Len(cache) |->
            IF cache[i].key = frameInfo.key THEN frameInfo ELSE cache[i]]
    ELSE Append(cache, frameInfo)

CacheSet(cache, frameInfo) ==
    IF CacheHas(cache, frameInfo.key) THEN cache ELSE Append(cache, frameInfo)

(***************************************************************************)
(* End branch, lines 211-225: the scan over the queue left after shift().  *)
(* 0 when no entry is swapped to the front, else the index of that entry.  *)
(***************************************************************************)
SiblingIndex(queue, topKey) ==
    LET Stops(i) == queue[i].ts > queue[1].ts
                    \/ createFrameInfoFromEvent(queue[i]).key = topKey
        stops == { i \in 2..Len(queue) : Stops(i) }
        first == CHOOSE i \in stops : \A j \in stops : i <= j
    IN  IF stops = {} THEN 0
        ELSE IF queue[first].ts > queue[1].ts THEN 0
        ELSE first

\* Swap without the write-back of the entry at i
SwapOverwrite(queue, i, j) == [queue EXCEPT ![i] = queue[j]]

Swap(queue, i, j) == [queue EXCEPT ![i] = queue[j], ![j] = queue[i]]

(***************************************************************************)
(* A thrown Error: nothing in parseChromeTraceArrayFormat catches it, so   *)
(* the import ends without a return value.  error names the throw site.    *)
(***************************************************************************)
\* Throw with the failed bucket skipped and the import going on
ThrowSkip(site) ==
    /\ pc' = "bucket"
    /\ error' = site
    /\ bi' = bi + 1
    /\ profiles' = profiles
    /\ result' = result

Throw(site) ==
    /\ pc' = "failed"
    /\ error' = site
    /\ bi' = bi
    /\ profiles' = profiles
    /\ result' = result

ErrorKind(site) ==
    CASE site = "EmptyProfile" -> "EmptyProfile"
      [] site \in {"NeverEntered", "NeverEnteredTail"} -> "UnbalancedStack"
      [] site \in {"NoEvents", "EmptyBeginQueue"} -> "Internal"
      [] site = "TypeError" -> "TypeError"
      [] OTHER -> "none"

(***************************************************************************)
(* Actions                                                                 *)
(***************************************************************************)
\* parseChromeTraceArrayFormat, lines 269-273: partition, start of the loops
Split ==
    /\ pc = "split"
    /\ collections' = splitEventsByProcessAndTraceId(input)
    /\ order' = ForInBuckets(collections')
    /\ bi' = 1
    /\ pc' = "bucket"
    /\ UNCHANGED << pending, outcomes, input, profileName, beginQueue, endQueue, firstTimestamp,
                    stack, frameCache, calls, dequeued, profiles, result, error >>

\* buildProfile, lines 112-183
StartBuild ==
    /\ pc = "bucket"
    /\ bi <= Len(order)
    /\ LET processId == order[bi][1]
           threadId == order[bi][2]
           events == EventsOf(collections, processId, threadId)
           bq == Sort(PendingBegin(events))
           eq == Sort(PendingEnd(events))
       IN  /\ profileName' = << ProcessName(events, KeyString(processId)),
                                ThreadName(events, KeyString(threadId)) >>
           /\ beginQueue' = bq
           /\ endQueue' = eq
           /\ stack' = << >>
           /\ frameCache' = << >>
           /\ calls' = << >>
           /\ dequeued' = << >>
           /\ IF bq = << >>
              THEN /\ Throw("EmptyProfile")
                   /\ firstTimestamp' = firstTimestamp
              ELSE /\ firstTimestamp' = bq[1].ts
                   /\ pc' = "loop"
                   /\ UNCHANGED << bi, profiles, result, error >>
    /\ UNCHANGED << pending, outcomes, input, collections, order >>

InLoop == pc = "loop" /\ (beginQueue # << >> \/ endQueue # << >>)
InTail == pc = "loop" /\ beginQueue = << >> /\ endQueue = << >>

\* merge loop, Begin branch, lines 186-204
LoopBegin ==
    /\ InLoop
    /\ getNextQueue(beginQueue, endQueue) \in {"B", "throw"}
    /\ IF getNextQueue(beginQueue, endQueue) = "throw"
       THEN /\ Throw("NoEvents")
            /\ UNCHANGED << beginQueue, stack, frameCache, calls, dequeued >>
       ELSE IF beginQueue = << >>
       THEN /\ Throw("EmptyBeginQueue")
            /\ UNCHANGED << beginQueue, stack, frameCache, calls, dequeued >>
       ELSE LET item == Head(beginQueue)
                frameInfo == createFrameInfoFromEvent(item)
            IN  /\ beginQueue' = Tail(beginQueue)
                /\ dequeued' = Append(dequeued, item)
                /\ frameCache' = CacheSet(frameCache, frameInfo)
                /\ calls' = Append(calls, Call("enterFrame", frameInfo.key,
                                               item.ts - firstTimestamp, "B"))
                /\ stack' = Append(stack, item)
                /\ UNCHANGED << pc, bi, profiles, result, error >>
    /\ UNCHANGED << pending, outcomes, input, collections, order, profileName, endQueue, firstTimestamp >>

\* LoopEnd going on with an empty stack, the lookup of its top giving no key
LoopEndUnguarded ==
    /\ InLoop
    /\ getNextQueue(beginQueue, endQueue) = "E"
    /\ LET item == Head(endQueue)
           rest == Tail(endQueue)
       IN  /\ dequeued' = Append(dequeued, item)
           /\ LET topKey == IF stack = << >> THEN << >>
                         ELSE createFrameInfoFromEvent(Last(stack)).key
                  m == SiblingIndex(rest, topKey)
                  frameInfo == IF m = 0 THEN createFrameInfoFromEvent(item)
                               ELSE createFrameInfoFromEvent(rest[m])
              IN  /\ endQueue' = IF m = 0 THEN rest ELSE Swap(rest, 1, m)
                  /\ IF ~CacheHas(frameCache, frameInfo.key)
                     THEN /\ Throw("NeverEntered")
                          /\ UNCHANGED << stack, calls >>
                     ELSE /\ calls' = Append(calls, Call("leaveFrame", frameInfo.key,
                                                    item.ts - firstTimestamp, "E"))
                          /\ stack' = Front(stack)
                          /\ UNCHANGED << pc, bi, profiles, result, error >>
    /\ UNCHANGED << pending, outcomes, input, collections, order, profileName, beginQueue,
                    firstTimestamp, frameCache >>

\* merge loop, End branch, lines 186-187 and 206-237
LoopEnd ==
    /\ InLoop
    /\ getNextQueue(beginQueue, endQueue) = "E"
    /\ LET item == Head(endQueue)
           rest == Tail(endQueue)
       IN  /\ dequeued' = Append(dequeued, item)
           /\ IF stack = << >>
              THEN \* createFrameInfoFromEvent(undefined) reads undefined.args
                   /\ Throw("TypeError")
                   /\ endQueue' = rest
                   /\ UNCHANGED << stack, calls >>
              ELSE LET topKey == createFrameInfoFromEvent(Last(stack)).key
                       m == SiblingIndex(rest, topKey)
                       frameInfo == IF m = 0 THEN createFrameInfoFromEvent(item)
                                    ELSE createFrameInfoFromEvent(rest[m])
                   IN  /\ endQueue' = IF m = 0 THEN rest ELSE Swap(rest, 1, m)
                       /\ IF ~CacheHas(frameCache, frameInfo.key)
                          THEN /\ Throw("NeverEntered")
                               /\ UNCHANGED << stack, calls >>
                          ELSE /\ calls' = Append(calls, Call("leaveFrame", frameInfo.key,
                                                         item.ts - firstTimestamp, "E"))
                               /\ stack' = Front(stack)
                               /\ UNCHANGED << pc, bi, profiles, result, error >>
    /\ UNCHANGED << pending, outcomes, input, collections, order, profileName, beginQueue,
                    firstTimestamp, frameCache >>

\* TailLeaveAt with the relative timestamp of the event, as in the merge loop
TailLeaveAtTs(key, item) == item.ts - firstTimestamp

\* line 251: the second argument of leaveFrame in the closing loop
TailLeaveAt(key, item) == TotalWeight(key, calls)

\* closing loop, lines 241-252
TailStep ==
    /\ InTail
    /\ stack # << >>
    /\ LET item == Last(stack)
           frameInfo == createFrameInfoFromEvent(item)
       IN  /\ stack' = Front(stack)
           /\ IF ~CacheHas(frameCache, frameInfo.key)
              THEN /\ Throw("NeverEnteredTail")
                   /\ UNCHANGED calls
              ELSE /\ calls' = Append(calls, Call("leaveFrame", frameInfo.key,
                                             TailLeaveAt(frameInfo.key, item), "tail"))
                   /\ UNCHANGED << pc, bi, profiles, result, error >>
    /\ UNCHANGED << pending, outcomes, input, collections, order, profileName, beginQueue, endQueue,
                    firstTimestamp, frameCache, dequeued >>

\* line 254 and profiles.push, lines 274-281
FinishBuild ==
    /\ InTail
    /\ stack = << >>
    /\ calls' = Append(calls, Call("build", << >>, 0, "build"))
    /\ profiles' = Append(profiles, [name |-> profileName, calls |-> calls'])
    /\ bi' = bi + 1
    /\ pc' = "bucket"
    /\ UNCHANGED << pending, outcomes, input, collections, order, profileName, beginQueue, endQueue,
                    firstTimestamp, stack, frameCache, dequeued, result, error >>

\* lines 284-289
Return ==
    /\ pc = "bucket"
    /\ bi > Len(order)
    /\ result' = << [name |-> "chrometrace", traceID |-> "",
                     activeProfileIndex |-> 0, profiles |-> profiles] >>
    /\ pc' = "returned"
    /\ UNCHANGED << pending, outcomes, input, collections, order, bi, profileName, beginQueue, endQueue,
                    firstTimestamp, stack, frameCache, calls, dequeued, profiles, error >>

\* what a call that ended has given: the Error or the ProfileGroup, and the
\* calls made on the EventedProfile of each bucket
Outcome == [error |-> error, result |-> result, profiles |-> profiles, calls |-> calls]

\* the call has ended, by return or by throw, and parseChromeTraceArrayFormat
\* is called again, on the next trace
ImportNext ==
    /\ pc \in {"returned", "failed"}
    /\ pending # << >>
    /\ outcomes' = Append(outcomes, Outcome)
    /\ pending' = Tail(pending)
    /\ input' = Head(pending)
    /\ pc' = "split"
    /\ collections' = << >>
    /\ order' = << >>
    /\ bi' = 1
    /\ profileName' = << >>
    /\ beginQueue' = << >>
    /\ endQueue' = << >>
    /\ firstTimestamp' = 0
    /\ stack' = << >>
    /\ frameCache' = << >>
    /\ calls' = << >>
    /\ dequeued' = << >>
    /\ profiles' = << >>
    /\ result' = << >>
    /\ error' = "none"

Next ==
    \/ Split
    \/ StartBuild
    \/ LoopBegin
    \/ LoopEnd
    \/ TailStep
    \/ FinishBuild
    \/ Return

(***************************************************************************)
(* Inputs                                                                  *)
(***************************************************************************)
Timestamps == {0, 1}
FrameArgs == {ArgsF, ArgsG}

\* events of one bucket: every Begin and End, and a Complete event
BucketEvents ==
    { Ev(Num(1), Num(1), ph, ts, "a", a, None, None) :
        ph \in {"B", "E"}, ts \in Timestamps, a \in FrameArgs }
    \cup { Ev(Num(1), Num(1), "X", 0, "a", ArgsF, Num(1), None) }

\* events of several buckets, with and without numeric pid and tid
ImportEvents ==
    { Ev(p, t, ph, 0, "a", ArgsF, None, None) :
        p \in {None, Num(1), Num(2)}, t \in {None, Num(1), Num(2)}, ph \in {"B", "E"} }
    \cup { Ev(Num(1), Num(1), "M", 0, "thread_name", ArgsMain, None, None) }

TracesOf(events, maxLen) == UNION { [1..n -> events] : n \in 0..maxLen }

Started(trace) ==
    /\ input = trace
    /\ pc = "split"
    /\ collections = << >>
    /\ order = << >>
    /\ bi = 1
    /\ profileName = << >>
    /\ beginQueue = << >>
    /\ endQueue = << >>
    /\ firstTimestamp = 0
    /\ stack = << >>
    /\ frameCache = << >>
    /\ calls = << >>
    /\ dequeued = << >>
    /\ profiles = << >>
    /\ result = << >>
    /\ error = "none"

\* one call, on any of the traces
InitWith(traces) ==
    \E trace \in traces :
        /\ Started(trace)
        /\ pending = << >>
        /\ outcomes = << >>

Init == InitWith(TracesOf(BucketEvents, MaxLen))
Spec == Init /\ [][Next]_vars

InitImport == InitWith(TracesOf(ImportEvents, MaxImportLen))
SpecImport == InitImport /\ [][Next]_vars

(***************************************************************************)
(* Two calls in a row, on two traces that a claim says to be equivalent    *)
(***************************************************************************)
NextAgain == Next \/ ImportNext

InitPairs(pairs) ==
    \E pair \in pairs :
        /\ Started(pair[1])
        /\ pending = << pair[2] >>
        /\ outcomes = << >>

Routable(e) == IsNumber(e.pid) /\ IsNumber(e.tid)

RoutingEvents ==
    { Ev(p, t, ph, 0, "a", ArgsF, None, None) :
        p \in {None, Num(1), Num(2)}, t \in {None, Num(1)}, ph \in {"B", "E"} }

\* a trace without its events of non-numeric pid or tid, then the trace itself
InitRoutable ==
    InitPairs({ << SelectSeq(trace, Routable), trace >> :
                  trace \in TracesOf(RoutingEvents, MaxImportLen) })
SpecRoutable == InitRoutable /\ [][NextAgain]_vars

ArgsOther == << <<"name", "string", "Other">> >>
ArgsProc == << <<"name", "string", "Proc">> >>
ArgsNumber == << <<"name", "number", "7">> >>

\* events of one bucket in every phase: Begin, End, Complete with dur, with
\* tdur, with both and with neither, Metadata and an ignored phase
NormEvents ==
    { Ev(Num(1), Num(1), "B", 0, "a", ArgsF, None, None),
      Ev(Num(1), Num(1), "B", 1, "a", ArgsG, None, None),
      Ev(Num(1), Num(1), "E", 1, "a", ArgsF, None, None),
      Ev(Num(1), Num(1), "E", 2, "a", ArgsG, None, None),
      Ev(Num(1), Num(1), "X", 0, "a", ArgsF, Num(2), None),
      Ev(Num(1), Num(1), "X", 1, "a", ArgsG, None, Num(1)),
      Ev(Num(1), Num(1), "X", 0, "a", ArgsF, Num(1), Num(2)),
      Ev(Num(1), Num(1), "X", 0, "a", ArgsG, None, None),
      Ev(Num(1), Num(1), "M", 1, "thread_name", ArgsMain, None, None),
      Ev(Num(1), Num(1), "M", 0, "thread_name", ArgsOther, None, None),
      Ev(Num(1), Num(1), "M", 0, "thread_name", ArgsNumber, None, None),
      Ev(Num(1), Num(1), "M", 0, "process_name", ArgsProc, None, None),
      Ev(Num(1), Num(1), "M", 0, "thread_sort_index", ArgsMain, None, None),
      Ev(Num(1), Num(1), "i", 0, "a", ArgsF, None, None) }

\* a trace with each Complete event written as a Begin and an End (deleted
\* when it has no numeric duration)
ExplicitPair(e) ==
    IF e.ph # "X" THEN << e >>
    ELSE IF IsNumber(e.dur)
         THEN << Ev(e.pid, e.tid, "B", e.ts, e.name, e.args, None, None),
                 Ev(e.pid, e.tid, "E", e.ts + e.dur[1], e.name, e.args, None, None) >>
    ELSE IF IsNumber(e.tdur)
         THEN << Ev(e.pid, e.tid, "B", e.ts, e.name, e.args, None, None),
                 Ev(e.pid, e.tid, "E", e.ts + e.tdur[1], e.name, e.args, None, None) >>
    ELSE << >>

Explicit(trace) == Concat([i \in 1..Len(trace) |-> ExplicitPair(trace[i])])

\* a trace with its Complete events written out, then the trace itself
InitComplete ==
    InitPairs({ << Explicit(trace), trace >> : trace \in TracesOf(NormEvents, MaxNormLen) })
SpecComplete == InitComplete /\ [][NextAgain]_vars

\* events of one bucket with equal args under different names (one of them
\* empty) and different args under equal names
FrameEvents ==
    { Ev(Num(1), Num(1), "B", 0, n, a, None, None) :
        n \in {"a", "b", ""}, a \in FrameArgs }
    \cup { Ev(Num(1), Num(1), "E", 1, "b", ArgsF, None, None),
           Ev(Num(1), Num(1), "E", 1, "a", ArgsG, None, None) }

InitFrames == InitWith(TracesOf(FrameEvents, MaxFramesLen))
SpecFrames == InitFrames /\ [][Next]_vars

(***************************************************************************)
(* Vocabulary of the claims                                                *)
(***************************************************************************)
KeyOf(event) == createFrameInfoFromEvent(event).key

IsLoopCall(c) == c.by \in {"B", "E"}
IsLoopLeave(c) == c.by = "E"
IsTailCall(c) == c.by = "tail"
IsBuildCall(c) == c.op = "build"
IsEndEvent(e) == e.ph = "E"

LoopCalls(log) == SelectSeq(log, IsLoopCall)
TailCalls(log) == SelectSeq(log, IsTailCall)

Reverse(s) == [i \in 1..Len(s) |-> s[Len(s) + 1 - i]]

NonDecreasing(log) == \A i \in 1..(Len(log) - 1) : log[i].at <= log[i + 1].at

\* the log of a finished build ends with its only build() call
BuiltOnce(log) ==
    /\ log # << >>
    /\ IsBuildCall(Last(log))
    /\ \A i \in 1..(Len(log) - 1) : ~IsBuildCall(log[i])

\* the keys of the events on the stack after the calls of log: enterFrame
\* goes with stack.push, leaveFrame in the merge loop with stack.pop
RECURSIVE StackKeysAfter(_)
StackKeysAfter(log) ==
    IF log = << >> THEN << >>
    ELSE LET pre == StackKeysAfter(Front(log))
         IN  IF Last(log).op = "enterFrame" THEN Append(pre, Last(log).key)
             ELSE IF Last(log).op = "leaveFrame" THEN Front(pre)
             ELSE pre

StackKeys == [i \in 1..Len(stack) |-> KeyOf(stack[i])]

\* an End-branch pass is about to run with a non-empty stack
EndPass == InLoop /\ getNextQueue(beginQueue, endQueue) = "E" /\ stack # << >>

\* the entries of endQueue sharing the head's timestamp
HeadRun == { i \in 1..Len(endQueue) : endQueue[i].ts = endQueue[1].ts }

(***************************************************************************)
(* C1: on a timestamp tie between the head Begin and the head End,         *)
(* getNextQueue selects Begin; so every Begin event with timestamp t is    *)
(* dequeued before any End event with timestamp t: no Begin dequeued after *)
(* an End, and no Begin still queued, has the timestamp of a dequeued End. *)
(***************************************************************************)
C1_BeginBeforeEnd ==
    /\ (InLoop /\ beginQueue # << >> /\ endQueue # << >>
          /\ beginQueue[1].ts = endQueue[1].ts)
       => getNextQueue(beginQueue, endQueue) = "B"
    /\ \A i \in 1..Len(dequeued) :
         dequeued[i].ph = "E" =>
           /\ \A j \in (i + 1)..Len(dequeued) :
                dequeued[j].ph = "B" => dequeued[j].ts # dequeued[i].ts
           /\ \A k \in 1..Len(beginQueue) : beginQueue[k].ts # dequeued[i].ts

\* two Begins and then an End of one timestamp have been dequeued
C1_Witness ==
    \E i, j, k \in 1..Len(dequeued) :
        /\ i < j /\ j < k
        /\ dequeued[i].ph = "B" /\ dequeued[j].ph = "B" /\ dequeued[k].ph = "E"
        /\ dequeued[i].ts = dequeued[k].ts /\ dequeued[j].ts = dequeued[k].ts
        /\ Len(PendingEnd(input)) = 1

(***************************************************************************)
(* C2: in an End-branch pass, if the run of endQueue entries sharing the   *)
(* head's timestamp has two entries or more and one of them has the        *)
(* FrameKey of the top of the stack, the frame passed to leaveFrame is the *)
(* frame of the top of the stack.                                          *)
(***************************************************************************)
C2_SiblingChosen ==
    [][ ( /\ EndPass
          /\ Cardinality(HeadRun) >= 2
          /\ \E i \in HeadRun : KeyOf(endQueue[i]) = KeyOf(Last(stack))
          /\ Len(calls') = Len(calls) + 1 )
        => Last(calls').key = KeyOf(Last(stack)) ]_vars

(***************************************************************************)
(* C3: the entry removed from endQueue on an End-branch pass is the entry  *)
(* whose frame is left on that pass: the k-th leaveFrame call of the merge *)
(* loop is for the FrameKey of the k-th End event dequeued.                *)
(***************************************************************************)
C3_EndsConserved ==
    LET ends == SelectSeq(dequeued, IsEndEvent)
        leaves == SelectSeq(calls, IsLoopLeave)
    IN  \A k \in 1..Len(leaves) : k <= Len(ends) /\ leaves[k].key = KeyOf(ends[k])

(***************************************************************************)
(* C4: the relative timestamps passed to enterFrame and leaveFrame in the  *)
(* merge loop never decrease, for the build under way and for every built  *)
(* profile; and a built profile has exactly one build() call, after its    *)
(* last leaveFrame.                                                        *)
(***************************************************************************)
C4_NonDecreasing ==
    /\ NonDecreasing(LoopCalls(calls))
    /\ pc = "loop" => \A i \in 1..Len(calls) : ~IsBuildCall(calls[i])
    /\ \A i \in 1..Len(profiles) :
         /\ NonDecreasing(LoopCalls(profiles[i].calls))
         /\ BuiltOnce(profiles[i].calls)

\* a built profile of an input given out of time order, with calls at two times
C4_Witness ==
    /\ Len(profiles) = 1
    /\ \E i, j \in 1..Len(input) : i < j /\ input[i].ts > input[j].ts
    /\ LET log == LoopCalls(profiles[1].calls)
       IN  Len(log) >= 3 /\ log[1].at < Last(log).at

(***************************************************************************)
(* C5: every leaveFrame call of the End branch is for the FrameKey of the  *)
(* event on top of the stack at that moment.                               *)
(***************************************************************************)
C5_WellNested ==
    \A i \in 1..Len(calls) :
        IsLoopLeave(calls[i]) =>
            LET open == StackKeysAfter(SubSeq(calls, 1, i - 1))
            IN  open # << >> /\ calls[i].key = Last(open)

(***************************************************************************)
(* C6: when an End event is resolved whose FrameKey matches no Begin event *)
(* dequeued before it, the import fails with UnbalancedStack and without a *)
(* leaveFrame call for it; and a bucket with End events and no Begin event *)
(* fails with UnbalancedStack.                                             *)
(***************************************************************************)
C6_UnbalancedStack ==
    /\ ( /\ dequeued # << >>
         /\ Last(dequeued).ph = "E"
         /\ \A j \in 1..(Len(dequeued) - 1) :
              dequeued[j].ph = "B" => KeyOf(dequeued[j]) # KeyOf(Last(dequeued)) )
       => ( /\ pc = "failed"
            /\ ErrorKind(error) = "UnbalancedStack"
            /\ Len(SelectSeq(calls, IsLoopLeave))
                 < Len(SelectSeq(dequeued, IsEndEvent)) )
    /\ (pc = "failed" /\ beginQueue = << >> /\ endQueue # << >> /\ dequeued = << >>)
       => ErrorKind(error) = "UnbalancedStack"

(***************************************************************************)
(* C7: the closing loop never fails; it calls leaveFrame once for each     *)
(* event left on the stack by the merge loop, last pushed first, with the  *)
(* frame's totalWeight at the time of the call as its second argument; and *)
(* build() is then called exactly once.                                    *)
(***************************************************************************)
TailLogOk(log) ==
    \A i \in 1..Len(log) :
        IsTailCall(log[i]) =>
            /\ log[i].op = "leaveFrame"
            /\ log[i].at = TotalWeight(log[i].key, SubSeq(log, 1, i - 1))
            /\ \A j \in (i + 1)..Len(log) : ~IsLoopCall(log[j])

TailKeys(log) == LET t == TailCalls(log) IN [i \in 1..Len(t) |-> t[i].key]

C7_ForcedClose ==
    /\ error # "NeverEnteredTail"
    /\ TailLogOk(calls)
    /\ InTail => StackKeys \o Reverse(TailKeys(calls)) = StackKeysAfter(LoopCalls(calls))
    /\ \A i \in 1..Len(profiles) :
         LET log == profiles[i].calls
         IN  /\ TailLogOk(log)
             /\ Reverse(TailKeys(log)) = StackKeysAfter(LoopCalls(log))
             /\ BuiltOnce(log)

\* a built profile whose closing loop left two different frames, one of
\* them with a weight that is not zero
C7_Witness ==
    \E i \in 1..Len(profiles) :
        LET t == TailCalls(profiles[i].calls)
        IN  /\ Len(t) >= 2
            /\ t[1].key # t[2].key
            /\ \E k \in 1..Len(t) : t[k].at # 0

\* a bucket with a lone Begin yields a profile
C7_WitnessLoneBegin ==
    /\ pc = "returned"
    /\ Len(input) = 1
    /\ Len(profiles) = 1
    /\ Len(TailCalls(profiles[1].calls)) = 1

(***************************************************************************)
(* Vocabulary of the claims about the whole import                         *)
(***************************************************************************)
BucketOf(e) == << e.pid[1], e.tid[1] >>

\* the (pid, tid) pairs of the input in the order of their first events
RECURSIVE Discovery(_, _)
Discovery(seen, trace) ==
    IF trace = << >> THEN seen
    ELSE IF Routable(Head(trace)) /\ BucketOf(Head(trace)) \notin Range(seen)
         THEN Discovery(Append(seen, BucketOf(Head(trace))), Tail(trace))
         ELSE Discovery(seen, Tail(trace))

\* the bucket a profile was built from, read from its name
ProfileBucket(profile) == << profile.name[1][2][2], profile.name[2][2][2] >>

(***************************************************************************)
(* C8: the returned ProfileGroup has as many profiles as there are         *)
(* distinct (pid, tid) pairs with a Begin event, or a Complete event with  *)
(* a numeric duration, among the events with numeric pid and tid.          *)
(***************************************************************************)
C8_ProfileCount ==
    pc = "returned" =>
        Len(result[1].profiles) =
            Cardinality({ BucketOf(input[i]) :
                            i \in { j \in 1..Len(input) :
                                      Routable(input[j]) /\ OpensFrame(input[j]) } })

\* a group of two profiles of one process, from an input that also holds
\* an event without numeric pid
C8_Witness ==
    /\ pc = "returned"
    /\ Len(result[1].profiles) = 2
    /\ ProfileBucket(result[1].profiles[1])[1] = ProfileBucket(result[1].profiles[2])[1]
    /\ \E i \in 1..Len(input) : ~Routable(input[i])

(***************************************************************************)
(* C9: a ProfileGroup is returned only when the build of every bucket      *)
(* succeeded; once a build has failed, whatever was built before, nothing  *)
(* is returned.                                                            *)
(***************************************************************************)
C9_AllOrNothing ==
    /\ error # "none" => pc = "failed" /\ result = << >>
    /\ result # << >> =>
         /\ pc = "returned"
         /\ Len(result[1].profiles) = Len(Discovery(<< >>, input))
         /\ \A i \in 1..Len(result[1].profiles) : BuiltOnce(result[1].profiles[i].calls)

\* the second bucket fails after the first was built
C9_Witness ==
    /\ pc = "failed"
    /\ Len(profiles) = 1
    /\ bi = 2
    /\ result = << >>

(***************************************************************************)
(* C10: the profiles of the returned ProfileGroup are in the order in      *)
(* which their buckets first occur in the input.                           *)
(***************************************************************************)
C10_DiscoveryOrder ==
    pc = "returned" =>
        [i \in 1..Len(result[1].profiles) |-> ProfileBucket(result[1].profiles[i])]
            = Discovery(<< >>, input)

(***************************************************************************)
(* C11: events whose pid or tid is not a number have no influence: the     *)
(* import of a trace ends as the import of the same trace without them     *)
(* ended (same Error, or same ProfileGroup built from the same calls), and *)
(* no such event is in any bucket.                                         *)
(***************************************************************************)
C11_NoInfluence ==
    /\ (outcomes # << >> /\ pc \in {"returned", "failed"}) => Outcome = outcomes[1]
    /\ \A i \in 1..Len(collections) :
         \A j \in 1..Len(collections[i].threads) :
            \A e \in Range(collections[i].threads[j].events) : Routable(e)

\* a group is returned for a trace with an event without numeric pid or tid
\* between two events of a bucket
C11_Witness ==
    /\ outcomes # << >>
    /\ pc = "returned"
    /\ Len(profiles) >= 1
    /\ Len(input) = 3
    /\ Routable(input[1]) /\ ~Routable(input[2]) /\ Routable(input[3])

\* ... and an import that fails, with such an event before the failing bucket
C11_WitnessFailed ==
    /\ outcomes # << >>
    /\ pc = "failed"
    /\ Len(input) >= 2
    /\ ~Routable(input[1])

(***************************************************************************)
(* C12: a bucket with Complete events is built as the bucket in which each *)
(* Complete event with a numeric duration d (dur, else tdur) is written as *)
(* a Begin at ts and an End at ts + d, and each Complete event without one *)
(* is deleted: the same calls with the same frames and relative times, or  *)
(* the same Error.                                                         *)
(***************************************************************************)
C12_CompleteAsPair ==
    (outcomes # << >> /\ pc \in {"returned", "failed"}) =>
        IF input # << >> /\ Explicit(input) = << >>
        THEN \* no event is left: buildProfile of no events has no Begin either
             error = "EmptyProfile" /\ calls = << >>
        ELSE Outcome = outcomes[1]

\* a single Complete event: one enterFrame at 0, one leaveFrame at its duration
C12_Witness ==
    /\ outcomes # << >>
    /\ pc = "returned"
    /\ Len(input) = 1
    /\ input[1].ph = "X"
    /\ Len(profiles) = 1
    /\ profiles[1].calls =
         << Call("enterFrame", JSONStringify(ArgsF), 0, "B"),
            Call("leaveFrame", JSONStringify(ArgsF), 2, "E"),
            Call("build", << >>, 0, "build") >>

(***************************************************************************)
(* C13: when an End-branch pass leaves the frame of an endQueue entry      *)
(* other than the head, that entry is in the head's timestamp run, and the *)
(* relative timestamp passed to leaveFrame is that entry's own ts minus    *)
(* firstTimestamp.                                                         *)
(***************************************************************************)
C13_WithinHeadRun ==
    [][ ( /\ EndPass
          /\ Len(calls') = Len(calls) + 1
          /\ Last(calls').key # KeyOf(endQueue[1]) )
        => \E i \in HeadRun :
              /\ KeyOf(endQueue[i]) = Last(calls').key
              /\ Last(calls').at = endQueue[i].ts - firstTimestamp ]_vars

(***************************************************************************)
(* C14: leaveFrame is never called for a frame that is not open: every     *)
(* leaveFrame call of the merge loop is for a FrameKey of an event on the  *)
(* stack, also when a frame of that key was entered and left before.       *)
(***************************************************************************)
C14_OnlyOpenFramesLeft ==
    \A i \in 1..Len(calls) :
        IsLoopLeave(calls[i]) =>
            calls[i].key \in Range(StackKeysAfter(SubSeq(calls, 1, i - 1)))

(***************************************************************************)
(* C15: a bucket without a Begin event and without a Complete event with a *)
(* numeric duration makes buildProfile fail with EmptyProfile before any   *)
(* enterFrame or leaveFrame call; a bucket with one never fails so.        *)
(***************************************************************************)
BucketAt(j) == EventsOf(collections, order[j][1], order[j][2])

HasOpenable(events) ==
    \E e \in Range(events) :
        \/ e.ph = "B"
        \/ e.ph = "X" /\ (IsNumber(e.dur) \/ IsNumber(e.tdur))

C15_EmptyProfile ==
    /\ \A j \in 1..Len(order) :
         (j < bi \/ (j = bi /\ pc = "loop")) => HasOpenable(BucketAt(j))
    /\ pc = "failed" =>
         /\ error = "EmptyProfile" <=> ~HasOpenable(BucketAt(bi))
         /\ error = "EmptyProfile" => calls = << >>

\* a bucket of a Metadata event, an End event and a Complete event without
\* duration fails with EmptyProfile
C15_Witness ==
    /\ pc = "failed"
    /\ error = "EmptyProfile"
    /\ calls = << >>
    /\ { input[i].ph : i \in 1..Len(input) } = {"M", "E", "X"}

\* a bucket whose only openable event is a Complete event with tdur is built
C15_WitnessBuilt ==
    /\ pc = "returned"
    /\ Len(profiles) = 1
    /\ \A i \in 1..Len(input) : input[i].ph = "X" /\ ~IsNumber(input[i].dur)
    /\ input # << >>

(***************************************************************************)
(* C16: frameCache holds exactly one Frame for each FrameKey of the Begin  *)
(* events dequeued so far, in the order in which the keys first came (so   *)
(* no entry is removed or replaced), named after the first dequeued Begin  *)
(* of the key; every enterFrame and leaveFrame call is for a Frame of the  *)
(* cache; and two dequeued events have one FrameKey exactly when their     *)
(* args are equal, whatever their names.                                   *)
(***************************************************************************)
IsBeginEvent(e) == e.ph = "B"

DequeuedBegins == SelectSeq(dequeued, IsBeginEvent)

\* the indices of the Begin events that are the first of their args
FirstOfArgs ==
    { i \in 1..Len(DequeuedBegins) :
        \A j \in 1..(i - 1) : DequeuedBegins[j].args # DequeuedBegins[i].args }

DisplayName(e) == IF e.name = "" THEN "Unknown" ELSE e.name

C16_FrameIdentity ==
    /\ Len(frameCache) = Cardinality(FirstOfArgs)
    /\ \A k \in 1..Len(frameCache) :
         \E i \in FirstOfArgs :
            /\ Cardinality({ j \in FirstOfArgs : j <= i }) = k
            /\ frameCache[k].key = JSONStringify(DequeuedBegins[i].args)
            /\ frameCache[k].name = << DisplayName(DequeuedBegins[i]), frameCache[k].key >>
    /\ \A i, j \in 1..Len(frameCache) : frameCache[i].key = frameCache[j].key => i = j
    /\ \A i \in 1..Len(calls) :
         calls[i].op \in {"enterFrame", "leaveFrame"} => CacheHas(frameCache, calls[i].key)
    /\ \A i, j \in 1..Len(dequeued) :
         KeyOf(dequeued[i]) = KeyOf(dequeued[j]) <=> dequeued[i].args = dequeued[j].args

\* Begins of equal args and different names, Begins of equal names and
\* different args, and the frame of the first left by an End of another name
C16_Witness ==
    /\ Len(frameCache) = 2
    /\ \E i, j, k \in 1..Len(DequeuedBegins) :
          /\ i < j
          /\ DequeuedBegins[i].args = DequeuedBegins[j].args
          /\ DequeuedBegins[i].name # DequeuedBegins[j].name
          /\ DequeuedBegins[i].name = DequeuedBegins[k].name
          /\ DequeuedBegins[i].args # DequeuedBegins[k].args
    /\ \E i \in 1..Len(calls) : IsLoopLeave(calls[i])

(***************************************************************************)
(* C17: splitEventsByProcessAndTraceId partitions exactly: the bucket of   *)
(* (pid, tid) is the subsequence of the input of the events with that pid  *)
(* and tid, in their order; every event with numeric pid and tid has its   *)
(* bucket, no pair has two buckets, and no bucket is empty.                *)
(***************************************************************************)
\* the buckets of collections as [pid, tid, events]
Buckets ==
    Concat([i \in 1..Len(collections) |->
              [j \in 1..Len(collections[i].threads) |->
                 [pid |-> collections[i].pid,
                  tid |-> collections[i].threads[j].tid,
                  events |-> collections[i].threads[j].events]]])

\* the events of the input with numeric pid p and tid t, in input order
RECURSIVE Subsequence(_, _, _)
Subsequence(trace, p, t) ==
    IF trace = << >> THEN << >>
    ELSE IF Head(trace).pid = << p >> /\ Head(trace).tid = << t >>
         THEN << Head(trace) >> \o Subsequence(Tail(trace), p, t)
         ELSE Subsequence(Tail(trace), p, t)

C17_ExactPartition ==
    pc # "split" =>
        /\ \A k \in 1..Len(Buckets) :
             /\ Buckets[k].events = Subsequence(input, Buckets[k].pid, Buckets[k].tid)
             /\ Buckets[k].events # << >>
             /\ \A l \in 1..Len(Buckets) :
                  (Buckets[l].pid = Buckets[k].pid /\ Buckets[l].tid = Buckets[k].tid)
                    => l = k
        /\ \A i \in 1..Len(input) :
             (IsNumber(input[i].pid) /\ IsNumber(input[i].tid)) =>
                \E k \in 1..Len(Buckets) :
                    Buckets[k].pid = input[i].pid[1] /\ Buckets[k].tid = input[i].tid[1]
        /\ Len(Concat([k \in 1..Len(Buckets) |-> Buckets[k].events]))
             = Cardinality({ i \in 1..Len(input) :
                               IsNumber(input[i].pid) /\ IsNumber(input[i].tid) })

\* two buckets, one of them holding two different events in input order
\* around an event of the other
C17_Witness ==
    /\ pc # "split"
    /\ Len(Buckets) = 2
    /\ Len(input) = 3
    /\ \E k \in 1..2 : Buckets[k].events = << input[1], input[3] >> /\ input[1] # input[3]
    /\ Len(pending) = 0

(***************************************************************************)
(* C18: the merge loop terminates.  Every pass either fails or removes     *)
(* exactly one event from exactly one of beginQueue and endQueue and adds  *)
(* none, so a bucket with b pending opens and e pending closes is through  *)
(* after at most b + e passes; a loop that ends without failure has made   *)
(* exactly b enterFrame and e leaveFrame calls, and neither 'Profile       *)
(* contains no events' nor 'Nothing to take from begin queue' is raised.   *)
(***************************************************************************)
CurrentEvents == EventsOf(collections, order[bi][1], order[bi][2])
PendingOpens == Len(PendingBegin(CurrentEvents))
PendingCloses == Len(PendingEnd(CurrentEvents))

Occurrences(queue, e) == Cardinality({ i \in 1..Len(queue) : queue[i] = e })

\* queue2 is queue1 with exactly one entry taken out, in any order
OneRemoved(queue1, queue2) ==
    /\ Len(queue2) = Len(queue1) - 1
    /\ \A i \in 1..Len(queue2) : Occurrences(queue2, queue2[i]) <= Occurrences(queue1, queue2[i])

LoopAccounting ==
    /\ error \notin {"NoEvents", "EmptyBeginQueue"}
    /\ pc = "loop" =>
         /\ Len(dequeued) + Len(beginQueue) + Len(endQueue) = PendingOpens + PendingCloses
         /\ Len(dequeued) <= PendingOpens + PendingCloses
         /\ Cardinality({ i \in 1..Len(calls) : calls[i].by = "B" }) + Len(beginQueue)
              = PendingOpens
         /\ Cardinality({ i \in 1..Len(calls) : calls[i].by = "E" }) + Len(endQueue)
              = PendingCloses
         /\ \A i \in 1..Len(calls) : calls[i].by = "B" <=> calls[i].op = "enterFrame"
         /\ \A i \in 1..Len(calls) : calls[i].by \in {"E", "tail"} <=> calls[i].op = "leaveFrame"

LoopPass ==
    InLoop =>
        \/ pc' = "failed"
        \/ /\ pc' = "loop"
           /\ Len(dequeued') = Len(dequeued) + 1
           /\ \/ OneRemoved(beginQueue, beginQueue') /\ endQueue' = endQueue
              \/ OneRemoved(endQueue, endQueue') /\ beginQueue' = beginQueue

C18_LoopTerminates == [] LoopAccounting /\ [][LoopPass]_vars

\* a loop through without failure for a bucket of at least two opens and two
\* closes, with a close of one frame made while an End of another was pending
C18_Witness ==
    /\ InTail
    /\ PendingOpens >= 2
    /\ PendingCloses >= 2
    /\ Len(dequeued) = PendingOpens + PendingCloses
    /\ \E i \in 1..Len(calls) :
         calls[i].op = "leaveFrame" /\ calls[i].by = "E"
         /\ \E j \in 1..Len(dequeued) :
              IsEndEvent(dequeued[j]) /\ KeyOf(dequeued[j]) # calls[i].key

(***************************************************************************)
(* C19: Metadata events only label the profile.  The thread part of the    *)
(* profile name is the args.name of the last thread_name Metadata event    *)
(* with a string args.name in the input order of the bucket, with the tid  *)
(* ("tid" for the name when there is none), likewise for process_name,     *)
(* whatever the timestamps are; and no Metadata event, whatever its name,  *)
(* is in beginQueue, endQueue or on the stack, or is behind a call of      *)
(* enterFrame or leaveFrame.                                               *)
(***************************************************************************)
HasStringName(e) ==
    \E k \in 1..Len(e.args) : e.args[k][1] = "name" /\ e.args[k][2] = "string"

NameArg(e) ==
    e.args[CHOOSE k \in 1..Len(e.args) : e.args[k][1] = "name" /\ e.args[k][2] = "string"][3]

\* the label the last Metadata event named metaName gives, by position only
LastLabel(events, metaName, default) ==
    LET at == { i \in 1..Len(events) :
                  events[i].ph = "M" /\ events[i].name = metaName /\ HasStringName(events[i]) }
        last == CHOOSE i \in at : \A j \in at : j <= i
    IN  IF at = {} THEN default ELSE NameArg(events[last])

ExpectedName(events, processId, threadId) ==
    << << LastLabel(events, "process_name", "pid"), KeyString(processId) >>,
       << LastLabel(events, "thread_name", "tid"), KeyString(threadId) >> >>

IsFrameEvent(e) == e.ph \in {"B", "E", "X"}

C19_MetadataOnlyLabels ==
    /\ pc = "loop" =>
         /\ profileName = ExpectedName(CurrentEvents, order[bi][1], order[bi][2])
         /\ \A q \in {beginQueue, endQueue, stack, dequeued} :
              \A i \in 1..Len(q) : q[i].ph \in {"B", "E"}
         /\ Len(beginQueue) + Len(endQueue) + Len(dequeued)
              = Len(PendingBegin(SelectSeq(CurrentEvents, IsFrameEvent)))
                + Len(PendingEnd(SelectSeq(CurrentEvents, IsFrameEvent)))
         /\ Len(LoopCalls(calls)) = Len(dequeued)
         /\ Len(TailCalls(calls)) + Len(stack)
              = Cardinality({ i \in 1..Len(calls) : calls[i].op = "enterFrame" })
                - Cardinality({ i \in 1..Len(calls) : calls[i].by = "E" })
         /\ \A i \in 1..Len(calls) :
              \E j \in 1..Len(CurrentEvents) :
                 IsFrameEvent(CurrentEvents[j]) /\ KeyOf(CurrentEvents[j]) = calls[i].key
    /\ \A k \in 1..Len(profiles) :
         LET b == ProfileBucket(profiles[k])
         IN  profiles[k].name = ExpectedName(Subsequence(input, b[1], b[2]), b[1], b[2])

\* a built profile named after the thread_name event that is last in the
\* input but first in time
C19_Witness ==
    /\ pc = "returned"
    /\ Len(profiles) = 1
    /\ Len(input) = 3
    /\ input[1].ph = "M" /\ input[1].name = "thread_name" /\ input[1].ts = 1
    /\ input[3].ph = "M" /\ input[3].name = "thread_name" /\ input[3].ts = 0
    /\ HasStringName(input[1]) /\ HasStringName(input[3])
    /\ profiles[1].name = << << "pid", KeyString(1) >>, << "Other", KeyString(1) >> >>

\* a built profile with the default labels although a thread_name event
\* without a string args.name and a thread_sort_index event are in the bucket
C19_WitnessDefault ==
    /\ pc = "returned"
    /\ Len(profiles) = 1
    /\ \E i, j \in 1..Len(input) :
         /\ input[i].ph = "M" /\ input[i].name = "thread_name" /\ ~HasStringName(input[i])
         /\ input[j].ph = "M" /\ input[j].name = "thread_sort_index"
    /\ profiles[1].name = << << "pid", KeyString(1) >>, << "tid", KeyString(1) >> >>

(***************************************************************************)
(* C20: stack accounting.  In every state of the merge loop the length of  *)
(* stack is the number of enterFrame calls less the number of leaveFrame   *)
(* calls made so far, and so never negative; an End selected while the     *)
(* stack is empty makes the build fail with no leaveFrame call and no pop; *)
(* every event on the stack has its FrameKey in frameCache.                *)
(***************************************************************************)
Enters == Cardinality({ i \in 1..Len(calls) : calls[i].op = "enterFrame" })
Leaves == Cardinality({ i \in 1..Len(calls) : calls[i].op = "leaveFrame" })

StackAccounting ==
    (pc = "loop" \/ (pc = "failed" /\ error \in {"TypeError", "NeverEntered"})) =>
        /\ Len(stack) = Enters - Leaves
        /\ Enters >= Leaves
        /\ \A i \in 1..Len(stack) : CacheHas(frameCache, KeyOf(stack[i]))

EndOnEmptyStack ==
    (InLoop /\ getNextQueue(beginQueue, endQueue) = "E" /\ stack = << >>) =>
        /\ pc' = "failed"
        /\ calls' = calls
        /\ stack' = stack

\* every pass that shortens the stack had an entry to take and made one
\* leaveFrame call
PopOnlyWithTop ==
    (InLoop /\ Len(stack') < Len(stack)) =>
        /\ stack # << >>
        /\ stack' = Front(stack)
        /\ Len(calls') = Len(calls) + 1
        /\ calls'[Len(calls')].op = "leaveFrame"

C20_StackAccounting ==
    [] StackAccounting /\ [][EndOnEmptyStack /\ PopOnlyWithTop]_vars

\* an End selected with the stack empty after a frame was entered and left
C20_Witness ==
    /\ pc = "failed"
    /\ error = "TypeError"
    /\ stack = << >>
    /\ Enters = 1
    /\ Leaves = 1
    /\ Len(dequeued) = 3

\* two frames on the stack in the merge loop with an End still to come
C20_WitnessNested ==
    /\ InLoop
    /\ Len(stack) = 2
    /\ Leaves = 1
    /\ endQueue # << >>

====
